---- MODULE Spec2Model ----
(***************************************************************************)
(* Model of cions/genpass, package internal/runeset: the interval set      *)
(* (RuneSet), its frozen view (Picker) and the CSET parser (Parse).        *)
(*                                                                         *)
(* A Go slice is modelled as a record [arr, len]: arr is the backing       *)
(* array up to its capacity (Len(arr) = cap), len the slice length.        *)
(* Indices of the Go code are 0-based; element k of a slice is arr[k+1].   *)
(***************************************************************************)
EXTENDS Integers, Sequences, FiniteSets, TLC

\* ------------------------------------------------------------------ bounds
\* Largest code point of the builder specification's rune universe.
MaxRune == 3

Runes == 0..MaxRune

\* The element of a one-element set.  Only({F(v) : v \in {e}}) is F(e) with
\* e evaluated once.
Only(S) == CHOOSE v \in S : TRUE

\* ------------------------------------------------------- slices of Range
Range(lo, hi) == [lo |-> lo, hi |-> hi]

ZeroRange == Range(0, 0)

NilSlice == [arr |-> <<>>, len |-> 0]

Cap(sl) == Len(sl.arr)

\* The elements a slice shows: s[0:len].
View(sl) == SubSeq(sl.arr, 1, sl.len)

SeqOf(n, v) == [k \in 1..n |-> v]

\* runtime growslice, for a slice of 8-byte elements below 256 elements:
\* the needed length when it exceeds twice the old capacity, else twice
\* the old capacity.
growslice(oldCap, newLen) ==
    IF newLen > 2 * oldCap THEN newLen ELSE 2 * oldCap

\* slices.Insert(s, i, v) for one value v.  The result shares the backing
\* array of s (written in place) when len(s) < cap(s), and is a fresh
\* array otherwise; "fresh" tells which, and "orig" is what the array s
\* pointed to holds afterwards (left as it was when a fresh one is made).
Insert(sl, i, v) ==
    LET n == sl.len
        shown == View(sl)
        res == SubSeq(shown, 1, i) \o <<v>> \o SubSeq(shown, i + 1, n)
    IN  IF n + 1 > Cap(sl)
        THEN [arr |-> res \o SeqOf(growslice(Cap(sl), n + 1) - (n + 1), ZeroRange),
              len |-> n + 1, fresh |-> TRUE, orig |-> sl.arr]
        ELSE LET a == res \o SubSeq(sl.arr, n + 2, Cap(sl))
             IN  [arr |-> a, len |-> n + 1, fresh |-> FALSE, orig |-> a]

\* slices.Replace(s, i, j, v) for one value v.  i = j is Insert; otherwise
\* v fits in the deleted portion: the array is written in place, the tail
\* s[j:] is moved down and the obsolete elements s[tot:len] are cleared.
Replace(sl, i, j, v) ==
    IF i = j THEN Insert(sl, i, v)
    ELSE LET n == sl.len
             shown == View(sl)
             res == SubSeq(shown, 1, i) \o <<v>> \o SubSeq(shown, j + 1, n)
             tot == Len(res)
             a == res \o SeqOf(n - tot, ZeroRange) \o SubSeq(sl.arr, n + 1, Cap(sl))
         IN  [arr |-> a, len |-> tot, fresh |-> FALSE, orig |-> a]

\* ----------------------------------------------------------------- RuneSet
compare(a, b) ==
    IF a.hi < b THEN -1
    ELSE IF a.lo > b THEN 1
    ELSE 0

\* The loop of slices.BinarySearchFunc over x[0:n] with compare.
RECURSIVE BinarySearchLoop(_, _, _, _)
BinarySearchLoop(x, target, i, j) ==
    IF i < j
    THEN LET h == (i + j) \div 2
         IN  IF compare(x[h + 1], target) < 0
             THEN BinarySearchLoop(x, target, h + 1, j)
             ELSE BinarySearchLoop(x, target, i, h)
    ELSE i

BinarySearchFunc(x, target) ==
    LET n == Len(x)
        i == BinarySearchLoop(x, target, 0, n)
    IN  [idx |-> i, found |-> (i < n /\ compare(x[i + 1], target) = 0)]

\* Add without the test of found: the singleton is inserted every time.
Add_always(sl, r) ==
    LET b == BinarySearchFunc(View(sl), r)
    IN  Insert(sl, b.idx, Range(r, r))

\* RuneSet.Add: the new value of set.ranges.
Add(sl, r) ==
    LET b == BinarySearchFunc(View(sl), r)
    IN  IF ~b.found
        THEN Insert(sl, b.idx, Range(r, r))
        ELSE [arr |-> sl.arr, len |-> sl.len, fresh |-> FALSE, orig |-> sl.arr]

\* AddRange that forgets j++ when hi lands inside an interval.
AddRange_keepJ(sl, lo, hi) ==
    LET b1 == BinarySearchFunc(View(sl), lo)
        b2 == BinarySearchFunc(View(sl), hi)
        i == b1.idx
        lo2 == IF b1.found THEN sl.arr[i + 1].lo ELSE lo
        hi2 == IF b2.found THEN sl.arr[b2.idx + 1].hi ELSE hi
        j == IF b2.idx < i THEN i ELSE b2.idx
    IN  Replace(sl, i, j, Range(lo2, hi2))

\* AddRange that does not extend hi to the bound of the interval it lands in.
AddRange_keepHi(sl, lo, hi) ==
    LET b1 == BinarySearchFunc(View(sl), lo)
        b2 == BinarySearchFunc(View(sl), hi)
        i == b1.idx
        lo2 == IF b1.found THEN sl.arr[i + 1].lo ELSE lo
        j == IF b2.found THEN b2.idx + 1 ELSE b2.idx
    IN  Replace(sl, i, j, Range(lo2, hi))

\* RuneSet.AddRange for lo <= hi: the new value of set.ranges.
AddRange(sl, lo, hi) ==
    LET b1 == BinarySearchFunc(View(sl), lo)
        b2 == BinarySearchFunc(View(sl), hi)
        i == b1.idx
        lo2 == IF b1.found THEN sl.arr[i + 1].lo ELSE lo
        hi2 == IF b2.found THEN sl.arr[b2.idx + 1].hi ELSE hi
        j == IF b2.found THEN b2.idx + 1 ELSE b2.idx
    IN  Replace(sl, i, j, Range(lo2, hi2))

\* A block of a unicode.RangeTable (unicode.Range16, unicode.Range32).
Block(lo, hi, stride) == [Lo |-> lo, Hi |-> hi, Stride |-> stride]

\* One more call on the set inside an operation: st is the set so far
\* (with orig, the contents of the array the operation started on) and res
\* the result of the call on st.
Then(st, res) ==
    [arr |-> res.arr, len |-> res.len, fresh |-> st.fresh \/ res.fresh,
     orig |-> IF st.fresh THEN st.orig ELSE res.orig]

Start(sl) == [arr |-> sl.arr, len |-> sl.len, fresh |-> FALSE, orig |-> sl.arr]

\* x += r.Stride on an unsigned integer of the given width.  A uint16 wraps
\* at 65536; the uint32 values of this model stay below 2^31 - 65536, where
\* the sum does not wrap.
AddWrap(x, stride, width) ==
    IF width = 16 THEN (x + stride) % 65536 ELSE x + stride

\* for x := r.Lo; x <= r.Hi; x += r.Stride { set.Add(rune(x)) }
RECURSIVE StrideLoop(_, _, _, _, _)
StrideLoop(st, x, hi, stride, width) ==
    IF x <= hi
    THEN Only({StrideLoop(v, AddWrap(x, stride, width), hi, stride, width) :
                  v \in {Then(st, Add(st, x))}})
    ELSE st

\* The body of the loops over table.R16 and table.R32, for one block.
AddBlock(st, r, width) ==
    IF r.Stride = 1
    THEN Then(st, AddRange(st, r.Lo, r.Hi))
    ELSE StrideLoop(st, r.Lo, r.Hi, r.Stride, width)

RECURSIVE AddBlocks(_, _, _)
AddBlocks(st, blocks, width) ==
    IF blocks = <<>> THEN st
    ELSE Only({AddBlocks(v, Tail(blocks), width) :
                  v \in {AddBlock(st, Head(blocks), width)}})

\* RuneSet.AddRangeTable
AddRangeTable(sl, table) ==
    Only({AddBlocks(v, table.R32, 32) : v \in {AddBlocks(Start(sl), table.R16, 16)}})

\* cur.hi+1 on a rune (int32)
Inc32(v) == IF v = 2147483647 THEN (-2147483647) - 1 ELSE v + 1

\* The inner loop as an if: at most one following interval is merged.
MergeInner_once(arr, n, cur, j) ==
    IF j < n /\ Inc32(cur.hi) = arr[j + 1].lo
    THEN [cur |-> Range(cur.lo, arr[j + 1].hi), j |-> j + 1]
    ELSE [cur |-> cur, j |-> j]

\* for j < len(set.ranges) && cur.hi+1 == set.ranges[j].lo { ... }
RECURSIVE MergeInner(_, _, _, _)
MergeInner(arr, n, cur, j) ==
    IF j < n /\ Inc32(cur.hi) = arr[j + 1].lo
    THEN MergeInner(arr, n, Range(cur.lo, arr[j + 1].hi), j + 1)
    ELSE [cur |-> cur, j |-> j]

RECURSIVE MergeLoop(_, _, _, _)
MergeLoop(arr, n, i, j) ==
    IF j < n
    THEN Only({MergeLoop([arr EXCEPT ![i + 1] = in.cur], n, i + 1, in.j) :
                  in \in {MergeInner(arr, n, arr[j + 1], j + 1)}})
    ELSE [arr |-> arr, len |-> i, fresh |-> FALSE, orig |-> arr]

\* RuneSet.MergeAdjacents: written in place, then set.ranges[:i].
MergeAdjacents(sl) == MergeLoop(sl.arr, sl.len, 0, 0)

\* ------------------------------------------------------------------ Picker
RECURSIVE CumSizes(_, _)
CumSizes(rs, size) ==
    IF rs = <<>> THEN <<>>
    ELSE LET s2 == size + (Head(rs).hi - Head(rs).lo + 1)
         IN  <<s2>> \o CumSizes(Tail(rs), s2)

\* RuneSet.Picker: the Picker holds the slice set.ranges itself (pointer
\* and length), its own cumSizes and size.
Picker(sl) ==
    LET cs == CumSizes(View(sl), 0)
    IN  [len |-> sl.len, cumSizes |-> cs,
         size |-> IF cs = <<>> THEN 0 ELSE cs[Len(cs)]]

\* The loop of slices.BinarySearch over a sorted slice of int64.
RECURSIVE BinarySearchIntLoop(_, _, _, _)
BinarySearchIntLoop(x, target, i, j) ==
    IF i < j
    THEN LET h == (i + j) \div 2
         IN  IF x[h + 1] < target
             THEN BinarySearchIntLoop(x, target, h + 1, j)
             ELSE BinarySearchIntLoop(x, target, i, h)
    ELSE i

BinarySearch(x, target) ==
    LET n == Len(x)
        i == BinarySearchIntLoop(x, target, 0, n)
    IN  [idx |-> i, found |-> (i < n /\ x[i + 1] = target)]

Size(p) == p.size

\* Get that forgets ridx++ when the index equals a cumulative size.
Get_noIncr(p, parr, i) ==
    IF i < 0 \/ i >= p.size
    THEN [panic |-> TRUE, val |-> 0]
    ELSE LET b == BinarySearch(p.cumSizes, i)
             ridx == b.idx
             offset == IF ridx > 0 THEN i - p.cumSizes[ridx] ELSE i
         IN  [panic |-> FALSE, val |-> parr[ridx + 1].lo + offset]

\* Get that tests the upper bound only; an index outside of p.ranges
\* still panics.
Get_upperOnly(p, parr, i) ==
    IF i >= p.size
    THEN [panic |-> TRUE, val |-> 0]
    ELSE LET b == BinarySearch(p.cumSizes, i)
             ridx == IF b.found THEN b.idx + 1 ELSE b.idx
             offset == IF ridx > 0 THEN i - p.cumSizes[ridx] ELSE i
         IN  IF ridx + 1 > Len(parr)
             THEN [panic |-> TRUE, val |-> 0]
             ELSE [panic |-> FALSE, val |-> parr[ridx + 1].lo + offset]

\* Picker.Get on a picker whose ranges slice currently shows parr.
Get(p, parr, i) ==
    IF i < 0 \/ i >= p.size
    THEN [panic |-> TRUE, val |-> 0]
    ELSE LET b == BinarySearch(p.cumSizes, i)
             ridx == IF b.found THEN b.idx + 1 ELSE b.idx
             offset == IF ridx > 0 THEN i - p.cumSizes[ridx] ELSE i
         IN  [panic |-> FALSE, val |-> parr[ridx + 1].lo + offset]

\* ------------------------------------------------------------------ text
\* A Go string is a sequence of bytes.  A byte is written as the character
\* it stands for in ASCII ("a", "\\", "-") or, above 0x7F and for the
\* grave accent, as "0xHH".
Printable ==
    <<" ", "!", "\"", "#", "$", "%", "&", "'", "(", ")", "*", "+", ",", "-", ".", "/",
      "0", "1", "2", "3", "4", "5", "6", "7", "8", "9", ":", ";", "<", "=", ">", "?",
      "@", "A", "B", "C", "D", "E", "F", "G", "H", "I", "J", "K", "L", "M", "N", "O",
      "P", "Q", "R", "S", "T", "U", "V", "W", "X", "Y", "Z", "[", "\\", "]", "^", "_",
      "0x60", "a", "b", "c", "d", "e", "f", "g", "h", "i", "j", "k", "l", "m", "n", "o",
      "p", "q", "r", "s", "t", "u", "v", "w", "x", "y", "z", "{", "|", "}", "~">>

HighBytes ==
    ("0x80" :> 128) @@ ("0x81" :> 129) @@ ("0x82" :> 130) @@ ("0xA9" :> 169)
    @@ ("0xC0" :> 192) @@ ("0xC3" :> 195) @@ ("0xE3" :> 227) @@ ("0xFF" :> 255)

Bytes == {Printable[k] : k \in 1..Len(Printable)} \cup DOMAIN HighBytes

\* The value of a byte.
Code ==
    [c \in Bytes |->
        IF c \in DOMAIN HighBytes THEN HighBytes[c]
        ELSE 31 + (CHOOSE k \in 1..Len(Printable) : Printable[k] = c)]

Drop(s, n) == SubSeq(s, n + 1, Len(s))

Take(s, n) == SubSeq(s, 1, n)

\* The bytes of a string all of whose characters are ASCII.
Str(s) == s

\* utf8.DecodeRuneInString: the rune at the start of s and its width in
\* bytes; (RuneError, 1) for an encoding that is not valid.
RuneError == 65533

DecodeRuneInString(s) ==
    LET n == Len(s)
        b(k) == Code[s[k]]
        cont(k) == 128 <= b(k) /\ b(k) <= 191
        s0 == b(1)
        sz == IF s0 < 224 THEN 2 ELSE IF s0 < 240 THEN 3 ELSE 4
        acceptLo == IF s0 = 224 THEN 160 ELSE IF s0 = 240 THEN 144 ELSE 128
        acceptHi == IF s0 = 237 THEN 159 ELSE IF s0 = 244 THEN 143 ELSE 191
        bad == [r |-> RuneError, size |-> 1]
    IN  IF n < 1 THEN [r |-> RuneError, size |-> 0]
        ELSE IF s0 < 128 THEN [r |-> s0, size |-> 1]
        ELSE IF s0 < 194 \/ s0 > 244 THEN bad
        ELSE IF n < sz THEN bad
        ELSE IF b(2) < acceptLo \/ acceptHi < b(2) THEN bad
        ELSE IF sz <= 2 THEN [r |-> (s0 % 32) * 64 + (b(2) % 64), size |-> 2]
        ELSE IF ~cont(3) THEN bad
        ELSE IF sz <= 3
             THEN [r |-> (s0 % 16) * 4096 + (b(2) % 64) * 64 + (b(3) % 64), size |-> 3]
        ELSE IF ~cont(4) THEN bad
        ELSE [r |-> (s0 % 8) * 262144 + (b(2) % 64) * 4096 + (b(3) % 64) * 64
                      + (b(4) % 64),
              size |-> 4]

HexDigits ==
    <<"0", "1", "2", "3", "4", "5", "6", "7", "8", "9", "a", "b", "c", "d", "e", "f">>

UpperHex == ("A" :> 10) @@ ("B" :> 11) @@ ("C" :> 12) @@ ("D" :> 13) @@ ("E" :> 14)
            @@ ("F" :> 15)

IsHex(c) == c \in DOMAIN UpperHex \/ \E k \in 1..16 : HexDigits[k] = c

HexVal(c) ==
    IF c \in DOMAIN UpperHex THEN UpperHex[c]
    ELSE (CHOOSE k \in 1..16 : HexDigits[k] = c) - 1

\* One more than the greatest valid rune: every greater number stands for
\* "not a valid rune" in ParseUintHex.
TooBig == 1114112

\* strconv.ParseUint(s, 16, 32) followed by rune(n): ok is err == nil; a
\* value above 0x10FFFF, which no use here tells from another such value,
\* is given as TooBig.
RECURSIVE ParseUintHex(_, _)
ParseUintHex(s, acc) ==
    IF s = <<>> THEN [ok |-> TRUE, n |-> acc]
    ELSE IF ~IsHex(Head(s)) THEN [ok |-> FALSE, n |-> 0]
    ELSE Only({ParseUintHex(Tail(s), IF v >= TooBig THEN TooBig ELSE v) :
                  v \in {acc * 16 + HexVal(Head(s))}})

\* utf8.ValidRune
ValidRune(r) == (0 <= r /\ r < 55296) \/ (57343 < r /\ r < TooBig)

\* ---------------------------------------------------------- Unicode tables
\* unicode.Categories and unicode.Scripts, the entries this model uses.
Tab(r16, r32) == [R16 |-> r16, R32 |-> r32]

Categories ==
    (<<"Z">> :> Tab(<<Block(32, 32, 1), Block(160, 160, 1), Block(5760, 5760, 1),
                     Block(8192, 8202, 1), Block(8232, 8233, 1), Block(8239, 8239, 1),
                     Block(8287, 8287, 1), Block(12288, 12288, 1)>>, <<>>))
    @@ (<<"Z", "l">> :> Tab(<<Block(8232, 8232, 1)>>, <<>>))
    @@ (<<"Z", "p">> :> Tab(<<Block(8233, 8233, 1)>>, <<>>))
    @@ (<<"P", "c">> :> Tab(<<Block(95, 8255, 8160), Block(8256, 8276, 20),
                             Block(65075, 65076, 1), Block(65101, 65103, 1),
                             Block(65343, 65343, 1)>>, <<>>))

Scripts ==
    (Str(<<"B", "r", "a", "i", "l", "l", "e">>) :> Tab(<<Block(10240, 10495, 1)>>, <<>>))
    @@ (Str(<<"G", "o", "t", "h", "i", "c">>) :> Tab(<<>>, <<Block(66352, 66378, 1)>>))

\* ------------------------------------------------------------------ parser
Ok(st, size) == [size |-> size, err |-> "", res |-> st]

Fail(st, err) == [size |-> 0, err |-> err, res |-> st]

\* strings.IndexByte(s, c): the 0-based index of the first c in s, or -1.
IndexByte(s, c) ==
    IF \E k \in 1..Len(s) : s[k] = c
    THEN (CHOOSE k \in 1..Len(s) : s[k] = c /\ \A m \in 1..(k - 1) : s[m] # c) - 1
    ELSE -1

\* set.AddRange(lo, hi) for each pair <<lo, hi>> of characters, in order.
RECURSIVE AddRanges(_, _)
AddRanges(st, pairs) ==
    IF pairs = <<>> THEN st
    ELSE Only({AddRanges(v, Tail(pairs)) :
                  v \in {Then(st, AddRange(st, Code[Head(pairs)[1]], Code[Head(pairs)[2]]))}})

\* decodeCharClass(set, s): the bytes consumed (0: no class escape here),
\* the error, and the set after the calls made on it.
decodeCharClass(sl, s) ==
    LET st == Start(sl)
    IN  IF Len(s) < 2 \/ s[1] # "\\" THEN Ok(st, 0)
        ELSE CASE s[2] = "d" -> Ok(AddRanges(st, <<<<"0", "9">>>>), 2)
               [] s[2] = "l" -> Ok(AddRanges(st, <<<<"a", "z">>>>), 2)
               [] s[2] = "L" -> Ok(AddRanges(st, <<<<"A", "Z">>>>), 2)
               [] s[2] = "w" ->
                    Ok(AddRanges(st, <<<<"0", "9">>, <<"A", "Z">>, <<"a", "z">>>>), 2)
               [] s[2] = "s" ->
                    Ok(AddRanges(st, <<<<"!", "/">>, <<":", "@">>, <<"[", "0x60">>,
                                       <<"{", "~">>>>), 2)
               [] s[2] = "g" -> Ok(AddRanges(st, <<<<"!", "~">>>>), 2)
               [] s[2] = "p" ->
                    IF Len(s) < 3 THEN Fail(st, "truncated escape sequence")
                    ELSE IF s[3] # "{"
                    THEN IF <<s[3]>> \in DOMAIN Categories
                         THEN Ok(Then(st, AddRangeTable(st, Categories[<<s[3]>>])), 3)
                         ELSE Fail(st, "invalid character class name")
                    ELSE LET end == IndexByte(s, "}")
                             name == SubSeq(s, 4, end)
                         IN  IF end < 0 THEN Fail(st, "unterminated escape sequence")
                             ELSE IF name \in DOMAIN Categories
                             THEN Ok(Then(st, AddRangeTable(st, Categories[name])), end + 1)
                             ELSE IF name \in DOMAIN Scripts
                             THEN Ok(Then(st, AddRangeTable(st, Scripts[name])), end + 1)
                             ELSE Fail(st, "invalid character class name")
               [] OTHER -> Ok(st, 0)

Char(r, size) == [r |-> r, size |-> size, err |-> ""]

NoChar(err) == [r |-> 0, size |-> 0, err |-> err]

\* The hex escapes without the test of err: what strconv.ParseUint
\* returned is taken as the rune (0 for a text that is no number).
decodeHex_noCheck(s, n, valid) ==
    IF Len(s) < n + 2 THEN NoChar("truncated escape sequence")
    ELSE LET u == ParseUintHex(SubSeq(s, 3, n + 2), 0)
         IN  Char(IF u.ok THEN u.n ELSE 0, n + 2)

\* \x, \u and \U of decodeChar: n hex digits after the two bytes of the
\* escape; valid tells whether utf8.ValidRune is asked.
decodeHex(s, n, valid) ==
    IF Len(s) < n + 2 THEN NoChar("truncated escape sequence")
    ELSE LET u == ParseUintHex(SubSeq(s, 3, n + 2), 0)
         IN  IF ~u.ok \/ (valid /\ ~ValidRune(u.n))
             THEN NoChar("invalid escape sequence")
             ELSE Char(u.n, n + 2)

\* decodeChar that takes an escape it does not know for the character
\* after the backslash.
decodeChar_lenient(s) ==
    IF Len(s) = 0 THEN NoChar("EOF")
    ELSE IF s[1] # "\\"
    THEN LET d == DecodeRuneInString(s) IN Char(d.r, d.size)
    ELSE IF Len(s) = 1 THEN NoChar("truncated escape sequence")
    ELSE CASE s[2] = "0" -> Char(0, 2)
           [] s[2] = "a" -> Char(7, 2)
           [] s[2] = "b" -> Char(8, 2)
           [] s[2] = "t" -> Char(9, 2)
           [] s[2] = "n" -> Char(10, 2)
           [] s[2] = "v" -> Char(11, 2)
           [] s[2] = "f" -> Char(12, 2)
           [] s[2] = "r" -> Char(13, 2)
           [] s[2] = "e" -> Char(27, 2)
           [] s[2] = "x" -> decodeHex(s, 2, FALSE)
           [] s[2] = "u" -> decodeHex(s, 4, TRUE)
           [] s[2] = "U" -> decodeHex(s, 8, TRUE)
           [] OTHER -> Char(Code[s[2]], 2)

\* decodeChar(s): the rune decoded, the bytes it takes, and the error.
decodeChar(s) ==
    IF Len(s) = 0 THEN NoChar("EOF")
    ELSE IF s[1] # "\\"
    THEN LET d == DecodeRuneInString(s) IN Char(d.r, d.size)
    ELSE IF Len(s) = 1 THEN NoChar("truncated escape sequence")
    ELSE CASE s[2] \in {"-", "\\"} -> Char(Code[s[2]], 2)
           [] s[2] = "0" -> Char(0, 2)
           [] s[2] = "a" -> Char(7, 2)
           [] s[2] = "b" -> Char(8, 2)
           [] s[2] = "t" -> Char(9, 2)
           [] s[2] = "n" -> Char(10, 2)
           [] s[2] = "v" -> Char(11, 2)
           [] s[2] = "f" -> Char(12, 2)
           [] s[2] = "r" -> Char(13, 2)
           [] s[2] = "e" -> Char(27, 2)
           [] s[2] = "x" -> decodeHex(s, 2, FALSE)
           [] s[2] = "u" -> decodeHex(s, 4, TRUE)
           [] s[2] = "U" -> decodeHex(s, 8, TRUE)
           [] OTHER -> NoChar("invalid escape sequence")

\* An error return that hands back the set built so far.
ParseFail_keep(sl) == [arr |-> sl.arr, len |-> sl.len]

\* return RuneSet{}, err
ParseFail(sl) == NilSlice

\* A return without the call of MergeAdjacents.
ParseReturn_noMerge(sl) == Start(sl)

\* set.MergeAdjacents(); return set, nil
ParseReturn(sl) == MergeAdjacents(sl)

\* The loop body without the fallback: a high end that does not decode is
\* returned as the error.
ParseIter_strict(sl, s) ==
    LET c == decodeCharClass(sl, s)
        d == decodeChar(s)
        dash == Len(s) > d.size /\ s[d.size + 1] = "-"
        e == decodeChar(Drop(s, d.size + 1))
        It(kind, res, s2, err) ==
            [kind |-> kind, res |-> res, s |-> s2, err |-> err, r |-> d.r,
             end |-> IF kind = "range" THEN e.r ELSE 0]
    IN  IF c.err # "" THEN It("error", c.res, s, c.err)
        ELSE IF c.size # 0 THEN It("class", c.res, Drop(s, c.size), "")
        ELSE IF d.err # "" THEN It("error", Start(sl), s, d.err)
        ELSE IF dash
        THEN IF e.err # "" THEN It("error", Start(sl), s, e.err)
             ELSE IF d.r > e.r
             THEN It("error", Start(sl), s, "bad character range")
             ELSE It("range", AddRange(sl, d.r, e.r), Drop(s, d.size + e.size + 1), "")
        ELSE It("char", Add(sl, d.r), Drop(s, d.size), "")

\* The loop body whose fallback adds lo and leaves s where it is.
ParseIter_stay(sl, s) ==
    LET c == decodeCharClass(sl, s)
        d == decodeChar(s)
        dash == Len(s) > d.size /\ s[d.size + 1] = "-"
        e == decodeChar(Drop(s, d.size + 1))
        It(kind, res, s2, err) ==
            [kind |-> kind, res |-> res, s |-> s2, err |-> err, r |-> d.r,
             end |-> IF kind = "range" THEN e.r ELSE 0]
    IN  IF c.err # "" THEN It("error", c.res, s, c.err)
        ELSE IF c.size # 0 THEN It("class", c.res, Drop(s, c.size), "")
        ELSE IF d.err # "" THEN It("error", Start(sl), s, d.err)
        ELSE IF dash /\ e.err = ""
        THEN IF d.r > e.r
             THEN It("error", Start(sl), s, "bad character range")
             ELSE It("range", AddRange(sl, d.r, e.r), Drop(s, d.size + e.size + 1), "")
        ELSE It("char", Add(sl, d.r), IF dash THEN s ELSE Drop(s, d.size), "")

\* One iteration of the loop of Parse on the set sl and the text s: what
\* it did (kind), the set and the text afterwards, the error, and the runes
\* r and end it decoded.
ParseIter(sl, s) ==
    LET c == decodeCharClass(sl, s)
        d == decodeChar(s)
        dash == Len(s) > d.size /\ s[d.size + 1] = "-"
        e == decodeChar(Drop(s, d.size + 1))
        It(kind, res, s2, err) ==
            [kind |-> kind, res |-> res, s |-> s2, err |-> err, r |-> d.r,
             end |-> IF kind = "range" THEN e.r ELSE 0]
    IN  IF c.err # "" THEN It("error", c.res, s, c.err)
        ELSE IF c.size # 0 THEN It("class", c.res, Drop(s, c.size), "")
        ELSE IF d.err # "" THEN It("error", Start(sl), s, d.err)
        ELSE IF dash /\ e.err = ""
        THEN IF d.r > e.r
             THEN It("error", Start(sl), s, "bad character range")
             ELSE It("range", AddRange(sl, d.r, e.r), Drop(s, d.size + e.size + 1), "")
        ELSE It("char", Add(sl, d.r), Drop(s, d.size), "")

\* Parse(s), the loop run to its end from the set sl: the error and the
\* set returned.
RECURSIVE ParseLoop(_, _)
ParseLoop(sl, s) ==
    IF s = <<>>
    THEN [err |-> "", ranges |-> View(ParseReturn(sl))]
    ELSE Only({IF it.kind = "error"
               THEN [err |-> it.err, ranges |-> View(ParseFail(sl))]
               ELSE ParseLoop(it.res, it.s) : it \in {ParseIter(sl, s)}})

Parse(s) == ParseLoop(NilSlice, s)

\* ------------------------------------------------------------------ state
VARIABLES
    set,      \* RuneSet.ranges of the set being built (or Parse's local set)
    picker,   \* the Picker last made by set.Picker(), if any
    snap,     \* history: what picker.Get(0..Size()-1) returned when it was made
    last,     \* the last call made and what it returned
    input,    \* Parse: the text given
    rest,     \* Parse: the text not yet consumed (the variable s)
    ret,      \* Parse: what it returned, once it has
    loop      \* AddRangeTable run step by step: where its loops stand

vars == <<set, picker, snap, last, input, rest, ret, loop>>

parseVars == <<input, rest, ret>>

NoPicker ==
    [built |-> FALSE, shared |-> FALSE, arr |-> <<>>, len |-> 0,
     cumSizes |-> <<>>, size |-> 0]

Call(op, x, y) == [op |-> op, x |-> x, y |-> y, panic |-> FALSE, val |-> 0]

NoRet == [done |-> FALSE, err |-> "", set |-> NilSlice]

\* AddRangeTable not called: pc is the place in the method, table its
\* argument, width the list it is in (16: table.R16, 32: table.R32), k the
\* index of the block r in that list, x the variable of the inner loop, and
\* calls (history) the calls made on the set for the block r.
NoLoop ==
    [pc |-> "idle", table |-> Tab(<<>>, <<>>), width |-> 16, k |-> 0, x |-> 0,
     calls |-> <<>>]

\* What picker.ranges shows: the array it shares with the set, or the array
\* the set left behind when it moved to a new one.
PickerArr == IF picker.shared THEN set.arr ELSE picker.arr

\* The set takes the result of a mutating call.  A picker sharing the
\* set's array keeps the old array when the call allocated a new one.
\* Elements of the array beyond the length of every slice on it are read by
\* no later call (Insert and Replace write them before showing them): the
\* state holds zeros there.
Mutate(res) ==
    /\ set' = [arr |-> [k \in 1..Len(res.arr) |->
                          IF \/ k <= res.len
                             \/ (picker.built /\ picker.shared /\ ~res.fresh
                                    /\ k <= picker.len)
                          THEN res.arr[k] ELSE ZeroRange],
               len |-> res.len]
    /\ picker' = IF picker.built /\ picker.shared /\ res.fresh
                 THEN [picker EXCEPT !.shared = FALSE,
                                     !.arr = SubSeq(res.orig, 1, picker.len)]
                 ELSE picker

\* ----------------------------------------------------- inputs of the builder
MaxStride == 2

\* Range tables with a block in R16 and a block in R32, of stride 1 (taken
\* by AddRange) and of larger strides (taken by Add, member by member).
Tables ==
    {[R16 |-> <<Block(lo, MaxRune, s)>>, R32 |-> <<Block(0, 0, 1)>>] :
        lo \in Runes, s \in 2..MaxStride}
    \cup {[R16 |-> <<Block(1, 1, 1)>>, R32 |-> <<Block(0, MaxRune, s)>>] :
        s \in 2..MaxStride}

\* ---------------------------------------------------- actions of the builder
Init ==
    /\ set = NilSlice
    /\ picker = NoPicker
    /\ snap = <<>>
    /\ last = Call("new", 0, 0)
    /\ input = <<>>
    /\ rest = <<>>
    /\ ret = NoRet
    /\ loop = NoLoop

DoAdd ==
    \E r \in Runes :
        /\ \E res \in {Add(set, r)} : Mutate(res)
        /\ last' = Call("Add", r, r)
        /\ UNCHANGED <<snap, parseVars, loop>>

DoAddRange ==
    \E lo \in Runes, hi \in Runes :
        /\ IF lo > hi
           THEN /\ last' = [Call("AddRange", lo, hi) EXCEPT !.panic = TRUE]
                /\ UNCHANGED <<set, picker>>
           ELSE /\ \E res \in {AddRange(set, lo, hi)} : Mutate(res)
                /\ last' = Call("AddRange", lo, hi)
        /\ UNCHANGED <<snap, parseVars, loop>>

DoAddRangeTable ==
    \E t \in Tables :
        /\ \E res \in {AddRangeTable(set, t)} : Mutate(res)
        /\ last' = Call("AddRangeTable", 0, 0)
        /\ UNCHANGED <<snap, parseVars, loop>>

DoMergeAdjacents ==
    /\ \E res \in {MergeAdjacents(set)} :
           /\ Mutate(res)
           /\ last' = Call("MergeAdjacents", set.len, res.len)
    /\ UNCHANGED <<snap, parseVars, loop>>

DoPicker ==
    LET p == Picker(set)
    IN  /\ picker' = [built |-> TRUE, shared |-> TRUE, arr |-> <<>>, len |-> p.len,
                      cumSizes |-> p.cumSizes, size |-> p.size]
        /\ snap' = [k \in 1..p.size |-> Get(p, set.arr, k - 1).val]
        /\ last' = Call("Picker", 0, 0)
        /\ UNCHANGED <<set, parseVars, loop>>

DoGet ==
    /\ picker.built
    /\ \E i \in -1..picker.size :
           LET g == Get(picker, PickerArr, i)
           IN  last' = [Call("Get", i, i) EXCEPT !.panic = g.panic, !.val = g.val]
    /\ UNCHANGED <<set, picker, snap, parseVars, loop>>

\* Picker.Random: rand.Int(rand.Reader, n) yields any i in [0, n) and
\* panics for n <= 0.
DoRandom ==
    /\ picker.built
    /\ IF picker.size <= 0
       THEN last' = [Call("Random", 0, 0) EXCEPT !.panic = TRUE]
       ELSE \E i \in 0..(picker.size - 1) :
               LET g == Get(picker, PickerArr, i)
               IN  last' = [Call("Random", i, i) EXCEPT !.panic = g.panic, !.val = g.val]
    /\ UNCHANGED <<set, picker, snap, parseVars, loop>>

Next ==
    \/ DoAdd
    \/ DoAddRange
    \/ DoAddRangeTable
    \/ DoMergeAdjacents
    \/ DoPicker
    \/ DoGet
    \/ DoRandom

Spec == Init /\ [][Next]_vars

\* ------------------------------------------------------ inputs of the parser
\* Longest text made of the letters of Alphabet that Parse is given.
MaxLen == 4

Alphabet == {"\\", "-", "a", "z", "d", "p", "Z"}

RECURSIVE Texts(_)
Texts(n) ==
    IF n = 0 THEN {<<>>}
    ELSE LET shorter == Texts(n - 1)
         IN  shorter \cup {Append(s, c) : s \in {x \in shorter : Len(x) = n - 1},
                                          c \in Alphabet}

\* The class escapes, and texts that decode to one character.
ClassEscapes ==
    {<<"\\", "d">>, <<"\\", "l">>, <<"\\", "L">>, <<"\\", "w">>, <<"\\", "s">>,
     <<"\\", "g">>, <<"\\", "p", "Z">>, <<"\\", "p", "{", "Z", "l", "}">>,
     <<"\\", "p", "{", "G", "o", "t", "h", "i", "c", "}">>}

CharItems ==
    {<<"a">>, <<"_">>, <<"-">>, <<"~">>, <<"\\", "\\">>, <<"\\", "-">>, <<"\\", "n">>,
     <<"\\", "x", "4", "1">>, <<"\\", "u", "3", "0", "4", "2">>, <<"0xC3", "0xA9">>}

\* Texts with a fault, one of each kind.
Faults ==
    {<<"\\">>, <<"\\", "?">>, <<"\\", "x", "0">>, <<"\\", "x", "X", "X">>,
     <<"\\", "u", "0", "0">>, <<"\\", "u", "D", "8", "0", "0">>,
     <<"\\", "U", "0", "0", "0", "0">>,
     <<"\\", "U", "F", "F", "F", "F", "F", "F", "F", "F">>,
     <<"\\", "U", "0", "0", "1", "1", "0", "0", "0", "0">>,
     <<"\\", "p">>, <<"\\", "p", "X">>, <<"\\", "p", "{">>, <<"\\", "p", "{", "}">>,
     <<"\\", "p", "{", "G", "r", "e", "e", "k">>,
     <<"\\", "p", "{", "I", "N", "V", "A", "L", "I", "D", "}">>,
     <<"z", "-", "a">>}

ValidPrefixes ==
    {<<>>, <<"a">>, <<"\\", "d">>, <<"a", "-", "z">>, <<"\\", "p", "Z">>}

\* The faults that are malformed escapes of one character (no class escape).
EscapeFaults ==
    {f \in Faults : f[1] = "\\" /\ (Len(f) >= 2 => f[2] # "p")}

\* Texts lo-f: a character, a dash, and a malformed escape where the high
\* end of a range would be.
DashFaults ==
    {v \o x \o <<"-">> \o f :
        v \in ValidPrefixes \ {<<"a">>}, x \in CharItems, f \in EscapeFaults}

\* Texts of the package's tests and of its documentation.
Scenarios ==
    {<<"a", "-", "z", "A", "-", "Z", "0", "-", "A">>,
     <<"A", "B", "C", "a", "b", "c", "0", "1", "2">>,
     <<"A", "-", "C", "a", "-", "c", "0", "-", "2">>,
     <<"-", "-", "\\", "d", "-", "\\", "L", "-", "-">>,
     <<"!", "-", "-", "/">>,
     <<"a", "\\", "-", "z">>,
     <<"a", "\\", "\\", "-", "z">>,
     <<"\\", "w", "\\", "s", "\\", "g", "\\", "p", "{", "Z", "l", "}">>,
     <<"\\", "p", "{", "B", "r", "a", "i", "l", "l", "e", "}">>,
     <<"\\", "p", "{", "P", "c", "}">>,
     <<"\\", "x", "F", "F">>,
     <<"\\", "U", "0", "0", "0", "1", "F", "2", "0", "0">>,
     <<"0xE3", "0x81", "0x81", "-", "0xE3", "0x82", "0x80">>,
     <<"0xFF">>, <<"0xC3">>, <<"0xC0", "0x80">>,
     <<"a", "-", "\\", "x", "Z", "Z">>,
     <<"\\", "s">>, <<"\\", "&">>}

Inputs ==
    Texts(MaxLen)
    \cup Scenarios
    \cup {c \o <<"-">> \o x : c \in ClassEscapes, x \in CharItems}
    \cup {x \o <<"-">> \o c : c \in ClassEscapes, x \in CharItems}
    \cup {v \o f : v \in ValidPrefixes, f \in Faults}
    \cup DashFaults

\* ----------------------------------------------------- actions of the parser
InitParse ==
    /\ input \in Inputs
    /\ rest = input
    /\ set = NilSlice
    /\ ret = NoRet
    /\ loop = NoLoop
    /\ picker = NoPicker
    /\ snap = <<>>
    /\ last = Call("Parse", 0, 0)

\* An iteration that takes a class escape.
ParseClass ==
    /\ ~ret.done
    /\ rest # <<>>
    /\ \E it \in {ParseIter(set, rest)} :
           /\ it.kind = "class"
           /\ Mutate(it.res)
           /\ rest' = it.s
           /\ last' = Call("Parse.class", Len(rest) - Len(it.s), 0)
    /\ UNCHANGED <<snap, input, ret, loop>>

\* An iteration that takes a range lo-hi.
ParseRange ==
    /\ ~ret.done
    /\ rest # <<>>
    /\ \E it \in {ParseIter(set, rest)} :
           /\ it.kind = "range"
           /\ Mutate(it.res)
           /\ rest' = it.s
           /\ last' = Call("Parse.range", it.r, it.end)
    /\ UNCHANGED <<snap, input, ret, loop>>

\* An iteration that takes one character.
ParseChar ==
    /\ ~ret.done
    /\ rest # <<>>
    /\ \E it \in {ParseIter(set, rest)} :
           /\ it.kind = "char"
           /\ Mutate(it.res)
           /\ rest' = it.s
           /\ last' = Call("Parse.char", it.r, it.r)
    /\ UNCHANGED <<snap, input, ret, loop>>

\* An iteration that returns an error.
ParseError ==
    /\ ~ret.done
    /\ rest # <<>>
    /\ \E it \in {ParseIter(set, rest)} :
           /\ it.kind = "error"
           /\ ret' = [done |-> TRUE, err |-> it.err, set |-> ParseFail(set)]
           /\ last' = Call("Parse.error", set.len, 0)
    /\ UNCHANGED <<set, picker, snap, input, rest, loop>>

\* The end of the loop: the set is compacted and returned.
ParseDone ==
    /\ ~ret.done
    /\ rest = <<>>
    /\ \E res \in {ParseReturn(set)} :
           /\ Mutate(res)
           /\ last' = Call("Parse.return", set.len, res.len)
    /\ ret' = [done |-> TRUE, err |-> "", set |-> set']
    /\ UNCHANGED <<snap, input, rest, loop>>

NextParse ==
    \/ ParseClass
    \/ ParseRange
    \/ ParseChar
    \/ ParseError
    \/ ParseDone

SpecParse == InitParse /\ [][NextParse]_vars

\* Parse runs on: the loop takes its next iteration or returns.
SpecParseFair == SpecParse /\ WF_vars(NextParse)

\* ------------------------------------- AddRangeTable, one loop step at a time
\* Most calls on the set that one run of an inner loop is followed for.
MaxCalls == 6

\* The greatest uint16, the type of Lo, Hi and Stride of a unicode.Range16
\* and of the loop variable x over table.R16.
MaxUint16 == 65535

Low == 0..MaxRune

High16 == (MaxUint16 - MaxRune)..MaxUint16

Astral == (MaxUint16 + 1)..(MaxUint16 + 1 + MaxRune)

\* The blocks with lo <= hi in S, of stride 1 and of larger strides.
Blocks(S) ==
    {Block(q[1], q[2], s) : q \in {w \in S \X S : w[1] <= w[2]}, s \in 1..MaxStride}

\* Range tables with one block of 16-bit fields, at the bottom or at the
\* top of the uint16 values, and one block of 32-bit fields.
LoopTables ==
    {Tab(<<b>>, <<c>>) :
        b \in Blocks(Low) \cup Blocks(High16),
        c \in {Block(lo, MaxUint16 + 1 + MaxRune, s) : lo \in Astral, s \in 1..MaxStride}}

\* The list the outer loop ranges over, and its block r.
CurList == IF loop.width = 16 THEN loop.table.R16 ELSE loop.table.R32

CurBlock == CurList[loop.k]

InitTable ==
    /\ set = NilSlice
    /\ picker = NoPicker
    /\ snap = <<>>
    /\ last = Call("new", 0, 0)
    /\ input = <<>>
    /\ rest = <<>>
    /\ ret = NoRet
    /\ loop = NoLoop

\* set.AddRangeTable(table) is called: the loop over table.R16 begins.
TableCall ==
    /\ loop.pc = "idle"
    /\ \E t \in LoopTables :
           loop' = [pc |-> "block", table |-> t, width |-> 16, k |-> 1, x |-> 0,
                    calls |-> <<>>]
    /\ last' = Call("AddRangeTable", 0, 0)
    /\ UNCHANGED <<set, picker, snap, parseVars>>

\* The loop over table.R16 is over: the loop over table.R32 begins.
TableNextList ==
    /\ loop.pc = "block"
    /\ loop.width = 16
    /\ loop.k > Len(CurList)
    /\ loop' = [loop EXCEPT !.width = 32, !.k = 1]
    /\ UNCHANGED <<set, picker, snap, last, parseVars>>

\* if r.Stride == 1 { set.AddRange(rune(r.Lo), rune(r.Hi)) }
TableRange ==
    /\ loop.pc = "block"
    /\ loop.k <= Len(CurList)
    /\ CurBlock.Stride = 1
    /\ \E res \in {AddRange(set, CurBlock.Lo, CurBlock.Hi)} : Mutate(res)
    /\ last' = Call("AddRange", CurBlock.Lo, CurBlock.Hi)
    /\ loop' = [loop EXCEPT !.pc = "end", !.calls = <<last'>>]
    /\ UNCHANGED <<snap, parseVars>>

\* else: x := r.Lo
TableEnter ==
    /\ loop.pc = "block"
    /\ loop.k <= Len(CurList)
    /\ CurBlock.Stride # 1
    /\ loop' = [loop EXCEPT !.pc = "stride", !.x = CurBlock.Lo, !.calls = <<>>]
    /\ UNCHANGED <<set, picker, snap, last, parseVars>>

\* x <= r.Hi: set.Add(rune(x)); x += r.Stride
TableAdd ==
    /\ loop.pc = "stride"
    /\ loop.x <= CurBlock.Hi
    /\ Len(loop.calls) < MaxCalls
    /\ \E res \in {Add(set, loop.x)} : Mutate(res)
    /\ last' = Call("Add", loop.x, loop.x)
    /\ loop' = [loop EXCEPT !.x = AddWrap(loop.x, CurBlock.Stride, loop.width),
                            !.calls = Append(loop.calls, last')]
    /\ UNCHANGED <<snap, parseVars>>

\* x > r.Hi: the inner loop is over.
TableLeave ==
    /\ loop.pc = "stride"
    /\ loop.x > CurBlock.Hi
    /\ loop' = [loop EXCEPT !.pc = "end"]
    /\ UNCHANGED <<set, picker, snap, last, parseVars>>

\* The outer loop goes to its next block.
TableNext ==
    /\ loop.pc = "end"
    /\ loop' = [loop EXCEPT !.pc = "block", !.k = loop.k + 1]
    /\ UNCHANGED <<set, picker, snap, last, parseVars>>

\* The loop over table.R32 is over: AddRangeTable returns.
TableReturn ==
    /\ loop.pc = "block"
    /\ loop.width = 32
    /\ loop.k > Len(CurList)
    /\ loop' = [loop EXCEPT !.pc = "done"]
    /\ UNCHANGED <<set, picker, snap, last, parseVars>>

NextTable ==
    \/ TableCall
    \/ TableNextList
    \/ TableRange
    \/ TableEnter
    \/ TableAdd
    \/ TableLeave
    \/ TableNext
    \/ TableReturn

SpecTable == InitTable /\ [][NextTable]_vars

\* ------------------------------------------------ vocabulary of the claims
Elems(s) == {s[k] : k \in 1..Len(s)}

Members(rs) == UNION {r.lo..r.hi : r \in Elems(rs)}

SortedDisjoint(rs) ==
    /\ \A k \in 1..Len(rs) : rs[k].lo <= rs[k].hi
    /\ \A k \in 1..(Len(rs) - 1) : rs[k].hi < rs[k + 1].lo

Touching(rs) == \E k \in 1..(Len(rs) - 1) : rs[k].hi + 1 = rs[k + 1].lo

RECURSIVE SumSizes(_)
SumSizes(rs) ==
    IF rs = <<>> THEN 0 ELSE (Head(rs).hi - Head(rs).lo + 1) + SumSizes(Tail(rs))

SetMin(S) == CHOOSE x \in S : \A y \in S : x <= y

SetMax(S) == CHOOSE x \in S : \A y \in S : x >= y

\* What the picker's ranges slice shows now.
PickerView == SubSeq(PickerArr, 1, picker.len)

\* ---------------------------------------------------------------- claims

\* C1: a Picker is an independent snapshot: whatever is called on the set
\* after p = set.Picker(), p.Size() and p.Get(i) for 0 <= i < p.Size() stay
\* what they were when p was made.
C1_PickerIndependent ==
    picker.built =>
        /\ Size(picker) = Len(snap)
        /\ \A i \in 0..(Size(picker) - 1) :
               Get(picker, PickerArr, i) = [panic |-> FALSE, val |-> snap[i + 1]]

\* C2: from the empty set, after any sequence of Add, AddRange (lo <= hi)
\* and AddRangeTable calls the interval list is strictly sorted by lo and
\* pairwise non-overlapping, each interval with lo <= hi.
C2_SortedDisjoint == SortedDisjoint(View(set))

C2_Witness ==
    /\ last.op \in {"Add", "AddRange", "AddRangeTable"}
    /\ ~last.panic
    /\ set.len >= 2
    /\ Touching(View(set))

\* C3: a Picker made from a reachable set has Size() equal to the number of
\* member code points (the sum of hi-lo+1 over the intervals), and Get is a
\* strictly increasing bijection from [0, Size()) onto the members, Get(0)
\* the least and Get(Size()-1) the greatest member.
C3_PickerBijection ==
    last.op = "Picker" =>
        LET rs == View(set)
            g(i) == Get(picker, PickerArr, i)
            n == Size(picker)
        IN  /\ n = Cardinality(Members(rs))
            /\ n = SumSizes(rs)
            /\ \A i \in 0..(n - 1) : ~g(i).panic /\ g(i).val \in Members(rs)
            /\ \A i \in 0..(n - 2) : g(i).val < g(i + 1).val
            /\ {g(i).val : i \in 0..(n - 1)} = Members(rs)
            /\ n >= 1 => /\ g(0).val = SetMin(Members(rs))
                         /\ g(n - 1).val = SetMax(Members(rs))

C3_Witness ==
    /\ last.op = "Picker"
    /\ picker.len >= 2
    /\ Size(picker) > picker.len
    /\ \E k \in 1..(set.len - 1) : set.arr[k].hi + 1 < set.arr[k + 1].lo

\* C4: for a Picker of size >= 1 Random() always returns a member of the
\* set: the rune lies inside one of the picker's intervals, never in a gap.
C4_RandomIsMember ==
    (last.op = "Random" /\ ~last.panic) => last.val \in Members(PickerView)

\* C5: MergeAdjacents keeps the member set, leaves no two consecutive
\* intervals with a.hi + 1 = b.lo, is idempotent, and changes nothing when
\* no two intervals touch.
C5_MergeAdjacents ==
    [][last'.op = "MergeAdjacents" =>
          /\ Members(View(set')) = Members(View(set))
          /\ SortedDisjoint(View(set'))
          /\ ~Touching(View(set'))
          /\ View(MergeAdjacents(set')) = View(set')
          /\ ~Touching(View(set)) => View(set') = View(set)]_vars

C5_Witness ==
    /\ last.op = "MergeAdjacents"
    /\ last.x > last.y
    /\ set.len >= 2

\* C6: AddRange(lo, hi) with lo <= hi is a union restricted to the span:
\* the members become the old members plus lo..hi, the intervals that
\* overlap lo..hi are replaced by one interval with the union of the
\* bounds, and every other interval, also one that only touches the new
\* bounds, stays as it is and unmerged.
C6_Example ==
    Parse(<<"a", "-", "z", "A", "-", "Z", "0", "-", "A">>)
        = [err |-> "", ranges |-> <<Range(Code["0"], Code["Z"]), Range(Code["a"], Code["z"])>>]

C6_AddRangeUnion ==
    [][(last'.op = "AddRange" /\ ~last'.panic) =>
          LET lo == last'.x
              hi == last'.y
              old == View(set)
              below(r) == r.hi < lo
              above(r) == r.lo > hi
              absorbed == {r \in Elems(old) : ~below(r) /\ ~above(r)}
              mlo == SetMin({lo} \cup {r.lo : r \in absorbed})
              mhi == SetMax({hi} \cup {r.hi : r \in absorbed})
          IN  /\ Members(View(set')) = Members(old) \cup (lo..hi)
              /\ View(set') = SelectSeq(old, below) \o <<Range(mlo, mhi)>>
                                  \o SelectSeq(old, above)
              /\ C6_Example]_vars

C6_Witness ==
    /\ last.op = "AddRange"
    /\ ~last.panic
    /\ Touching(View(set))
    /\ \E r \in Elems(View(set)) :
           /\ r.lo <= last.x /\ last.y <= r.hi
           /\ r # Range(last.x, last.y)

\* What Parse returned.
Returned == View(ret.set)

\* C7: every set a successful Parse returns is in maximal-run form: sorted,
\* pairwise disjoint, and no two consecutive intervals touch.
C7_ParseMaximalRuns ==
    (ret.done /\ ret.err = "") =>
        /\ SortedDisjoint(Returned)
        /\ ~Touching(Returned)

C7_Witness ==
    /\ ret.done /\ ret.err = ""
    /\ last.op = "Parse.return"
    /\ last.x > last.y
    /\ last.y >= 2

\* C8: Parse has no partial success: a text with a fault gives a non-nil
\* error, and with the error always the empty set, whatever was added
\* before the fault.
C8_NoPartialSuccess ==
    ret.done =>
        /\ ret.err # "" => ret.set = NilSlice
        /\ (\E v \in ValidPrefixes, f \in Faults : input = v \o f) => ret.err # ""

C8_Witness ==
    /\ ret.done /\ ret.err # ""
    /\ last.op = "Parse.error"
    /\ last.x >= 2
    /\ ret.set = NilSlice

IsClassStart(s) ==
    Len(s) >= 2 /\ s[1] = "\\" /\ s[2] \in {"d", "l", "L", "w", "s", "g", "p"}

\* C9: a class escape never becomes a range endpoint: the text C-x gives
\* the class of C, '-' and x, the text x-C gives x, '-' and the class of C,
\* and neither endpoint of a range that Parse adds is decoded from the
\* start of a class escape.
C9_ClassNeverEndpoint ==
    /\ [](ret.done =>
            \A c \in ClassEscapes, x \in CharItems :
                input \in {c \o <<"-">> \o x, x \o <<"-">> \o c} =>
                    /\ ret.err = ""
                    /\ Members(Returned)
                         = Members(Parse(c).ranges) \cup {Code["-"], decodeChar(x).r})
    /\ [][last'.op = "Parse.range" =>
            LET lo == decodeChar(rest)
                hi == decodeChar(Drop(rest, lo.size + 1))
            IN  /\ ~IsClassStart(rest)
                /\ ~IsClassStart(Drop(rest, lo.size + 1))
                /\ rest[lo.size + 1] = "-"
                /\ lo.err = "" /\ hi.err = ""
                /\ last'.x = lo.r /\ last'.y = hi.r
                /\ rest' = Drop(rest, lo.size + 1 + hi.size)]_vars

C9_Witness ==
    /\ ret.done /\ ret.err = ""
    /\ input = <<"\\", "w", "-", "_">>
    /\ Returned = <<Range(45, 45), Range(48, 57), Range(65, 90), Range(95, 95),
                    Range(97, 122)>>

\* C10: the escape \& stands for the ASCII punctuation, as the help text
\* says: Parse of it succeeds and gives !-/, :-@, [-` and {-~.
C10_AmpersandIsPunctuation ==
    (ret.done /\ input = <<"\\", "&">>) =>
        /\ ret.err = ""
        /\ Members(Returned) = (33..47) \cup (58..64) \cup (91..96) \cup (123..126)

\* C11 as stated: the fallback of a range hides the malformed text after the
\* dash: Parse of a-\xZZ takes the dash as a literal and reports no error.
C11_DashMasksBadEscape ==
    (ret.done /\ input = <<"a", "-", "\\", "x", "Z", "Z">>) => ret.err = ""

\* C11, amended: the fallback takes lo and then the dash as literals, and
\* the malformed escape after the dash is decoded again by the iteration
\* that reaches it: Parse stops there, with rest the escape itself, and
\* returns its decoding error and the empty set.
C11_DashDefersBadEscape ==
    ret.done =>
        /\ input = <<"a", "-", "\\", "x", "Z", "Z">> =>
               /\ ret.err = "invalid escape sequence"
               /\ rest = <<"\\", "x", "Z", "Z">>
               /\ Members(View(set)) = {Code["a"], Code["-"]}
        /\ \A v \in ValidPrefixes \ {<<"a">>}, x \in CharItems, f \in EscapeFaults :
               input = v \o x \o <<"-">> \o f =>
                   /\ ret.err = decodeChar(f).err
                   /\ ret.err # ""
                   /\ ret.set = NilSlice
                   /\ rest = f
                   /\ {decodeChar(x).r, Code["-"]} \subseteq Members(View(set))

C11_Witness ==
    /\ ret.done
    /\ input = <<"a", "-", "\\", "x", "Z", "Z">>
    /\ last.op = "Parse.error"
    /\ last.x = 2
    /\ ret.err = "invalid escape sequence"

\* The loop of Parse stands at a low end lo followed by a dash, and what
\* follows the dash does not decode as a high end.
AtFailedRange ==
    /\ ~ret.done
    /\ rest # <<>>
    /\ ~IsClassStart(rest)
    /\ decodeChar(rest).err = ""
    /\ Len(rest) > decodeChar(rest).size
    /\ rest[decodeChar(rest).size + 1] = "-"
    /\ decodeChar(Drop(rest, decodeChar(rest).size + 1)).err # ""

\* The loop of Parse has just taken lo by the fallback and stands at the dash.
AfterFallback ==
    /\ ~ret.done
    /\ last.op = "Parse.char"
    /\ rest # <<>>
    /\ rest[1] = "-"
    /\ decodeChar(Drop(rest, 1)).err # ""

\* C12: when lo is followed by a dash and the text after the dash does not
\* decode as a high end (a class escape, a malformed escape, the end of the
\* text), Parse returns no error there: it adds lo alone, consumes lo only,
\* and the next iteration adds the dash as the member '-'.  So a- gives
\* '-' and 'a', and --\d-\L-- gives '-', 0-9 and A-Z.
C12_FallbackKeepsDash ==
    /\ [](ret.done =>
            /\ input = <<"a", "-">> =>
                   ret.err = "" /\ Returned = <<Range(45, 45), Range(97, 97)>>
            /\ input = <<"-", "-", "\\", "d", "-", "\\", "L", "-", "-">> =>
                   /\ ret.err = ""
                   /\ Returned = <<Range(45, 45), Range(48, 57), Range(65, 90)>>)
    /\ [][AtFailedRange =>
            LET lo == decodeChar(rest)
            IN  /\ ~ret'.done
                /\ last'.op = "Parse.char"
                /\ last'.x = lo.r
                /\ rest' = Drop(rest, lo.size)
                /\ Head(rest') = "-"
                /\ Members(View(set')) = Members(View(set)) \cup {lo.r}
                /\ View(set') = View(Add(set, lo.r))]_vars
    /\ [][AfterFallback =>
            /\ ~ret'.done
            /\ last'.op = "Parse.char"
            /\ last'.x = Code["-"]
            /\ rest' = Tail(rest)
            /\ Members(View(set')) = Members(View(set)) \cup {Code["-"]}]_vars

C12_Witness ==
    /\ ret.done /\ ret.err = ""
    /\ input = <<"-", "-", "\\", "d", "-", "\\", "L", "-", "-">>
    /\ Returned = <<Range(45, 45), Range(48, 57), Range(65, 90)>>

\* The calls Add(lo), Add(lo + stride), ... up to hi, that a block of
\* stride > 1 stands for.
Expected(r) ==
    [i \in 1..((r.Hi - r.Lo) \div r.Stride + 1) |->
        Call("Add", r.Lo + (i - 1) * r.Stride, r.Lo + (i - 1) * r.Stride)]

\* C13: for a block {lo, hi, stride} with lo <= hi, AddRangeTable calls Add
\* once for each of lo, lo + stride, ... not above hi, in this order and for
\* no other value, and then goes on (it makes no more calls than these, so
\* the loop ends); a block of stride 1 is one call AddRange(lo, hi).
C13_StrideImport ==
    /\ loop.pc = "stride" =>
           /\ Len(loop.calls) <= Len(Expected(CurBlock))
           /\ \A i \in 1..Len(loop.calls) : loop.calls[i] = Expected(CurBlock)[i]
    /\ loop.pc = "end" =>
           loop.calls = IF CurBlock.Stride = 1
                        THEN <<Call("AddRange", CurBlock.Lo, CurBlock.Hi)>>
                        ELSE Expected(CurBlock)

\* The examples of C14: 'f' and 'b' added to {c-e}.
C14_Example ==
    LET ce == AddRange(NilSlice, Code["c"], Code["e"])
    IN  /\ View(Add(ce, Code["f"]))
              = <<Range(Code["c"], Code["e"]), Range(Code["f"], Code["f"])>>
        /\ View(Add(ce, Code["b"]))
              = <<Range(Code["b"], Code["b"]), Range(Code["c"], Code["e"])>>
        /\ View(Add(ce, Code["d"])) = <<Range(Code["c"], Code["e"])>>

\* C14: Add(v) leaves the interval list as it is when v lies inside an
\* interval; otherwise it inserts the one interval [v, v] at its sorted
\* position, changes no interval that was there, and merges it with none,
\* also when v is next to one.
C14_AddSingleton ==
    [][last'.op = "Add" =>
          LET v == last'.x
              old == View(set)
              below(r) == r.hi < v
              above(r) == r.lo > v
          IN  /\ v \in Members(old) => View(set') = old
              /\ v \notin Members(old) =>
                     View(set') = SelectSeq(old, below) \o <<Range(v, v)>>
                                      \o SelectSeq(old, above)
              /\ C14_Example]_vars

\* Add has put a singleton between two intervals that it touches, one of
\* them longer than one rune.
C14_Witness ==
    /\ last.op = "Add"
    /\ \E k \in 2..(set.len - 1) :
           /\ set.arr[k] = Range(last.x, last.x)
           /\ set.arr[k - 1].hi + 1 = last.x
           /\ set.arr[k + 1].lo - 1 = last.x
           /\ set.arr[k + 1].hi > set.arr[k + 1].lo

\* C15: a violated precondition is a panic, never a returned value:
\* AddRange(lo, hi) with lo > hi panics and leaves the interval list as it
\* was, Get(i) with i < 0 or i >= Size() panics, and Random() on a Picker
\* of size 0 panics.
C15_PreconditionsPanic ==
    /\ []((last.op = "Get" /\ (last.x < 0 \/ last.x >= Size(picker)))
             => (last.panic /\ last.val = 0))
    /\ []((last.op = "Random" /\ Size(picker) = 0) => (last.panic /\ last.val = 0))
    /\ [][(last'.op = "AddRange" /\ last'.x > last'.y)
             => (last'.panic /\ set' = set)]_vars

C15_Witness ==
    /\ last.op = "AddRange"
    /\ last.x > last.y
    /\ last.panic
    /\ set.len >= 2
    /\ picker.built /\ Size(picker) = 0

\* C16: Parse ends on every text.  An iteration of its loop returns an
\* error, or leaves a strictly shorter rest of the text, a suffix of the
\* rest it began with: a class escape takes at least 2 bytes, a range takes
\* lo, the dash and hi, one character, also by the fallback, takes lo.
C16_ParseTerminates ==
    /\ <>ret.done
    /\ [][(~ret.done /\ rest # <<>>) =>
            \/ ret'.done /\ ret'.err # "" /\ rest' = rest
            \/ /\ ~ret'.done
               /\ Len(rest') < Len(rest)
               /\ rest' = Drop(rest, Len(rest) - Len(rest'))
               /\ last'.op = "Parse.class" => Len(rest) - Len(rest') >= 2
               /\ last'.op = "Parse.range" =>
                      Len(rest) - Len(rest')
                          = decodeChar(rest).size + 1
                              + decodeChar(Drop(rest, decodeChar(rest).size + 1)).size
               /\ last'.op = "Parse.char" =>
                      Len(rest) - Len(rest') = decodeChar(rest).size]_vars

C16_Witness ==
    /\ ret.done /\ ret.err = ""
    /\ input = <<"a", "-", "\\", "d">>
    /\ rest = <<>>
    /\ Members(Returned) = {Code["a"], Code["-"]} \cup (Code["0"]..Code["9"])

====
